---- MODULE Spec2Model ----
(***************************************************************************)
(* chgpasswd: batch update of group passwords (src/src/chgpasswd.c).       *)
(*                                                                         *)
(* One run of main() is a process p.  Its globals and locals are functions *)
(* over Proc.  The two database files, their lock files and the presence   *)
(* of the gshadow file are shared by the runs.  The group / gshadow access *)
(* layer (groupio, sgroupio), pw_encrypt and crypt_make_salt live in the   *)
(* library and are modelled from their contract.                           *)
(***************************************************************************)
EXTENDS Integers, Sequences, FiniteSets, TLC

VARIABLES
    pc,             \* position of each run in main()
    status,         \* exit status of each run: NULL while it runs, then <<code>>
    argv,           \* command line of each run
    stdin,          \* unread part of each run's standard input
    input,          \* the whole standard input of each run (never changes)
    cflg, eflg, md5flg, sflg,   \* chgpasswd.c:57-60
    crypt_method,   \* chgpasswd.c:62
    sha_rounds,     \* chgpasswd.c:63
    is_shadow_grp,  \* chgpasswd.c:66
    sgr_locked,     \* chgpasswd.c:67
    gr_locked,      \* chgpasswd.c:69
    errors,         \* chgpasswd.c:375
    line,           \* chgpasswd.c:376
    code,           \* argument of the pending fail_exit call
    grTab, sgTab,   \* in-memory tables of the two handles
    grDirty, sgDirty, \* the handles' "changed" marks
    grLock, sgLock, \* owner of each lock file: Free or a run
    grDisk, sgDisk, \* contents of the group and gshadow files
    sgPresent,      \* whether the gshadow file exists
    calls,          \* per run: the library calls made so far, in order
    diag,           \* per run: the diagnostics written to stderr, in order
    salts           \* per run: the (method, arg) pairs given to crypt_make_salt

flagVars == <<cflg, eflg, md5flg, sflg, sha_rounds>>
lockVars == <<grLock, sgLock, gr_locked, sgr_locked>>
tabVars  == <<grTab, sgTab, grDirty, sgDirty>>
diskVars == <<grDisk, sgDisk, sgPresent>>
loopVars == <<stdin, errors, line, salts>>
vars == <<pc, status, argv, input, crypt_method, is_shadow_grp, code,
          flagVars, lockVars, tabVars, diskVars, loopVars, calls, diag>>

(***************************************************************************)
(* Bounds of the model.                                                    *)
(***************************************************************************)
\* size of main's line buffer (BUFSIZ of <stdio.h>, scaled down)
BufSize == 7
\* most lines of an input stream
MaxLines == 2

Proc == {"p1", "p2"}
Free == "free"      \* owner of a lock file nobody holds
NULL == <<>>        \* the null pointer; <<x>> is a pointer to x
E_USAGE == 2

(***************************************************************************)
(* Input streams: up to MaxLines records, each ended by a newline, the     *)
(* last one possibly not.  A stream is a sequence of characters.           *)
(***************************************************************************)
NL == "\n"

\* a record longer than the line buffer whose remainder reads "h:q"
LongRecord == [i \in 1..(BufSize - 1) |-> "p"] \o <<"h", ":", "q">>

\* g is in group and gshadow, h in group only, x in gshadow only; one record
\* has no colon, one has a colon inside its password
Records == { <<"g", ":", "p">>, <<"g", ":", "q">>, <<"h", ":", "p", ":", "q">>,
             <<"x", ":", "p">>, <<"g", "p">>, LongRecord }

RECURSIVE Flatten(_, _)
Flatten(ls, terminated) ==
    IF ls = <<>> THEN <<>>
    ELSE IF Len(ls) = 1 /\ ~terminated THEN ls[1]
    ELSE ls[1] \o <<NL>> \o Flatten(Tail(ls), terminated)

LineSeqs(n) == UNION { [1..k -> Records] : k \in 0..n }

Streams(n) == { Flatten(ls, t) : ls \in LineSeqs(n), t \in BOOLEAN }

(***************************************************************************)
(* Command lines: the options getopt_long hands to process_flags.          *)
(***************************************************************************)
Methods == { "DES", "MD5", "NONE", "SHA256", "SHA512" }
\* the argument of -s: option absent, a number
RoundsArgs == { "absent", "1000" }
NoArgv == [c |-> NULL, e |-> FALSE, m |-> FALSE, s |-> "absent", h |-> FALSE]
\* every combination of -c METHOD, -e, -m and -s N, then -h, an unsupported
\* method, and a -s argument that is no number
Argvs == [c : { <<m>> : m \in Methods } \cup {NULL},
          e : BOOLEAN, m : BOOLEAN, s : RoundsArgs, h : {FALSE}]
         \cup { [NoArgv EXCEPT !.h = TRUE],
                [NoArgv EXCEPT !.c = <<"BLOWFISH">>],
                [NoArgv EXCEPT !.c = <<"SHA256">>, !.s = "junk"] }

(***************************************************************************)
(* The database files before the run.                                      *)
(***************************************************************************)
GroupNames == { <<"g">>, <<"h">> }
ShadowNames == { <<"g">>, <<"x">> }
GrDisk0 == [n \in GroupNames |->
              [gr_name |-> n, gr_passwd |-> <<"x">>,
               gr_gid |-> IF n = <<"g">> THEN 10 ELSE 11]]
SgDisk0 == [n \in ShadowNames |->
              [sg_name |-> n, sg_passwd |-> <<"!">>, sg_adm |-> <<"root">>]]
NoTable == [n \in {} |-> NULL]

(***************************************************************************)
(* Library contracts.                                                      *)
(***************************************************************************)
\* getlong: pointer to the parsed number, NULL when the text is no number
GetLong(s) == IF s = "1000" THEN <<1000>> ELSE NULL

\* fgets (buf, n, stdin): at most n-1 characters, through the first newline;
\* the empty sequence stands for the NULL returned at end of stream
Fgets(s, n) ==
    LET most == IF Len(s) < n - 1 THEN Len(s) ELSE n - 1
        nls == { i \in 1..most : s[i] = NL }
        k == IF nls = {} THEN most
             ELSE CHOOSE i \in nls : \A j \in nls : i <= j
    IN SubSeq(s, 1, k)

\* strrchr / strchr: index of the last / first c in s, 0 when absent
Strrchr(s, c) ==
    LET is == { i \in 1..Len(s) : s[i] = c }
    IN IF is = {} THEN 0 ELSE CHOOSE i \in is : \A j \in is : j <= i
Strchr(s, c) ==
    LET is == { i \in 1..Len(s) : s[i] = c }
    IN IF is = {} THEN 0 ELSE CHOOSE i \in is : \A j \in is : i <= j

\* crypt_make_salt (method, arg): the salt names the method and, when a
\* rounds argument is given, the rounds
crypt_make_salt(method, arg) ==
    <<"$", IF method = NULL THEN "default" ELSE method[1], "$">>
    \o (IF arg = NULL THEN <<>> ELSE <<"rounds=", ToString(arg[1]), "$">>)

\* pw_encrypt (clear, salt): an opaque one-way encoding under the salt
pw_encrypt(clear, salt) == salt \o <<"#">> \o clear

\* gr_locate / sgr_locate: pointer to the entry of that name, or NULL
Locate(tab, name) == IF name \in DOMAIN tab THEN <<tab[name]>> ELSE NULL

\* gr_update / sgr_update on success: the entry of that key is replaced
Update(tab, key, rec) == [tab EXCEPT ![key] = rec]

\* one entry of calls and of diag; arg is the name looked up or staged and,
\* for a lock call, the holder of the lock file when the call was made
Call(op, ln, ok, name) == [op |-> op, line |-> ln, ok |-> ok, arg |-> name]
Diag(msg, ln) == [msg |-> msg, line |-> ln]

(***************************************************************************)
(* The state after the runs are started.                                   *)
(***************************************************************************)
InitRun(runs, argvs, streams) ==
    /\ pc = [p \in Proc |-> IF p \in runs THEN "process_flags" ELSE "absent"]
    /\ status = [p \in Proc |-> NULL]
    /\ argv \in [Proc -> argvs]
    /\ \A p \in Proc \ runs : argv[p] = NoArgv
    /\ input \in [Proc -> streams]
    /\ \A p \in Proc \ runs : input[p] = <<>>
    /\ stdin = input
    /\ cflg = [p \in Proc |-> FALSE]
    /\ eflg = [p \in Proc |-> FALSE]
    /\ md5flg = [p \in Proc |-> FALSE]
    /\ sflg = [p \in Proc |-> FALSE]
    /\ crypt_method = [p \in Proc |-> NULL]
    /\ sha_rounds = [p \in Proc |-> 5000]
    /\ is_shadow_grp = [p \in Proc |-> FALSE]
    /\ sgr_locked = [p \in Proc |-> FALSE]
    /\ gr_locked = [p \in Proc |-> FALSE]
    /\ errors = [p \in Proc |-> 0]
    /\ line = [p \in Proc |-> 0]
    /\ code = [p \in Proc |-> 0]
    /\ grTab = [p \in Proc |-> NoTable]
    /\ sgTab = [p \in Proc |-> NoTable]
    /\ grDirty = [p \in Proc |-> FALSE]
    /\ sgDirty = [p \in Proc |-> FALSE]
    /\ grLock = Free
    /\ sgLock = Free
    /\ grDisk = GrDisk0
    /\ sgPresent \in BOOLEAN
    /\ sgDisk = IF sgPresent THEN SgDisk0 ELSE NoTable
    /\ calls = [p \in Proc |-> <<>>]
    /\ diag = [p \in Proc |-> <<>>]
    /\ salts = [p \in Proc |-> {}]

\* one run
Init == InitRun({"p1"}, Argvs, Streams(MaxLines))

(***************************************************************************)
(* Steps common to the actions.                                            *)
(***************************************************************************)
Goto(p, label) == pc' = [pc EXCEPT ![p] = label]
Log(p, cs) == calls' = [calls EXCEPT ![p] = @ \o cs]
Say(p, ds) == diag' = [diag EXCEPT ![p] = @ \o ds]

\* exit (st)
Exit(p, st) ==
    /\ Goto(p, "exited")
    /\ status' = [status EXCEPT ![p] = <<st>>]

\* fail_exit (c): its body runs as FailExitGr and FailExitSgr
FailExit(p, c) ==
    /\ Goto(p, "fail_exit")
    /\ code' = [code EXCEPT ![p] = c]

(***************************************************************************)
(* process_flags and check_flags                                           *)
(***************************************************************************)
\* check_flags: TRUE when it returns, FALSE when it calls usage ()
CheckFlags(sf, cf, ef, mf, cm) ==
    /\ ~(sf /\ ~cf)
    /\ ~((ef /\ (mf \/ cf)) \/ (mf /\ cf))
    /\ cf => cm[1] \in Methods

ProcessFlags(p) ==
    /\ pc[p] = "process_flags"
    /\ LET a == argv[p]
           cf == a.c # NULL
           sf == a.s # "absent"
           num == GetLong(a.s)
           rounds == IF sf /\ num # NULL THEN num[1] ELSE sha_rounds[p]
       IN /\ cflg' = [cflg EXCEPT ![p] = cf]
          /\ crypt_method' = [crypt_method EXCEPT ![p] = a.c]
          /\ eflg' = [eflg EXCEPT ![p] = a.e]
          /\ md5flg' = [md5flg EXCEPT ![p] = a.m]
          /\ sflg' = [sflg EXCEPT ![p] = sf]
          /\ sha_rounds' = [sha_rounds EXCEPT ![p] = rounds]
          /\ IF a.h \/ (sf /\ num = NULL) \/ ~CheckFlags(sf, cf, a.e, a.m, a.c)
             THEN Exit(p, E_USAGE)
             ELSE Goto(p, "check_perms") /\ UNCHANGED status
    /\ UNCHANGED <<argv, input, is_shadow_grp, code, lockVars, tabVars,
                   diskVars, loopVars, calls, diag>>

(***************************************************************************)
(* check_perms: the PAM stack allows the caller or not                     *)
(***************************************************************************)
CheckPerms(p) ==
    /\ pc[p] = "check_perms"
    /\ \E allowed \in BOOLEAN :
          /\ Log(p, <<Call("check_perms", 0, allowed, NULL)>>)
          /\ IF allowed
             THEN Goto(p, "sgr_file_present") /\ UNCHANGED <<status, diag>>
             ELSE Say(p, <<Diag("PAM authentication failed", 0)>>) /\ Exit(p, 1)
    /\ UNCHANGED <<argv, input, crypt_method, is_shadow_grp, code, flagVars,
                   lockVars, tabVars, diskVars, loopVars>>

\* main: is_shadow_grp = sgr_file_present ()
SgrFilePresent(p) ==
    /\ pc[p] = "sgr_file_present"
    /\ is_shadow_grp' = [is_shadow_grp EXCEPT ![p] = sgPresent]
    /\ Goto(p, "gr_lock")
    /\ UNCHANGED <<status, argv, input, crypt_method, code, flagVars,
                   lockVars, tabVars, diskVars, loopVars, calls, diag>>

(***************************************************************************)
(* open_files                                                              *)
(***************************************************************************)
\* the result of gr_lock () ignored: the run goes on without the lock
GrLockUnchecked(p) ==
    /\ pc[p] = "gr_lock"
    /\ \E busy \in BOOLEAN :
          LET ok == grLock = Free /\ ~busy
          IN /\ Log(p, <<Call("gr_lock", 0, ok, <<grLock>>)>>)
             /\ grLock' = IF ok THEN p ELSE grLock
    /\ gr_locked' = [gr_locked EXCEPT ![p] = TRUE]
    /\ Goto(p, "gr_open")
    /\ UNCHANGED <<status, argv, input, crypt_method, is_shadow_grp, code,
                   flagVars, sgLock, sgr_locked, tabVars, diskVars, loopVars,
                   diag>>

\* line 297 left out: the lock is taken and gr_locked stays false
GrLockUnflagged(p) ==
    /\ pc[p] = "gr_lock"
    /\ \E busy \in BOOLEAN :
          LET ok == grLock = Free /\ ~busy
          IN /\ Log(p, <<Call("gr_lock", 0, ok, <<grLock>>)>>)
             /\ IF ok
                THEN /\ grLock' = p
                     /\ Goto(p, "gr_open")
                     /\ UNCHANGED <<code, diag>>
                ELSE /\ Say(p, <<Diag("cannot lock group", 0)>>)
                     /\ FailExit(p, 1)
                     /\ UNCHANGED grLock
    /\ UNCHANGED <<status, argv, input, crypt_method, is_shadow_grp, flagVars,
                   gr_locked, sgLock, sgr_locked, tabVars, diskVars, loopVars>>

\* gr_lock (): fails when another run, or (busy) another tool, holds the lock
GrLock(p) ==
    /\ pc[p] = "gr_lock"
    /\ \E busy \in BOOLEAN :
          LET ok == grLock = Free /\ ~busy
          IN /\ Log(p, <<Call("gr_lock", 0, ok, <<grLock>>)>>)
             /\ IF ok
                THEN /\ grLock' = p
                     /\ gr_locked' = [gr_locked EXCEPT ![p] = TRUE]
                     /\ Goto(p, "gr_open")
                     /\ UNCHANGED <<code, diag>>
                ELSE /\ Say(p, <<Diag("cannot lock group", 0)>>)
                     /\ FailExit(p, 1)
                     /\ UNCHANGED <<grLock, gr_locked>>
    /\ UNCHANGED <<status, argv, input, crypt_method, is_shadow_grp, flagVars,
                   sgLock, sgr_locked, tabVars, diskVars, loopVars>>

\* the shadowed database passed over
AfterGrOpenSkip(shadow) == "loop"

\* lines 304-306: the shadowed database is locked and opened if it exists
AfterGrOpen(shadow) == IF shadow THEN "sgr_lock" ELSE "loop"

\* gr_open (O_RDWR): loads the file into the handle's table, or fails
GrOpen(p) ==
    /\ pc[p] = "gr_open"
    /\ \E ok \in BOOLEAN :
          /\ Log(p, <<Call("gr_open", 0, ok, NULL)>>)
          /\ IF ok
             THEN /\ grTab' = [grTab EXCEPT ![p] = grDisk]
                  /\ Goto(p, AfterGrOpen(is_shadow_grp[p]))
                  /\ UNCHANGED <<code, diag>>
             ELSE /\ Say(p, <<Diag("cannot open group", 0)>>)
                  /\ FailExit(p, 1)
                  /\ UNCHANGED grTab
    /\ UNCHANGED <<status, argv, input, crypt_method, is_shadow_grp, flagVars,
                   lockVars, sgTab, grDirty, sgDirty, diskVars, loopVars>>

SgrLock(p) ==
    /\ pc[p] = "sgr_lock"
    /\ \E busy \in BOOLEAN :
          LET ok == sgLock = Free /\ ~busy
          IN /\ Log(p, <<Call("sgr_lock", 0, ok, <<sgLock>>)>>)
             /\ IF ok
                THEN /\ sgLock' = p
                     /\ sgr_locked' = [sgr_locked EXCEPT ![p] = TRUE]
                     /\ Goto(p, "sgr_open")
                     /\ UNCHANGED <<code, diag>>
                ELSE /\ Say(p, <<Diag("cannot lock gshadow", 0)>>)
                     /\ FailExit(p, 1)
                     /\ UNCHANGED <<sgLock, sgr_locked>>
    /\ UNCHANGED <<status, argv, input, crypt_method, is_shadow_grp, flagVars,
                   grLock, gr_locked, tabVars, diskVars, loopVars>>

SgrOpen(p) ==
    /\ pc[p] = "sgr_open"
    /\ \E ok \in BOOLEAN :
          /\ Log(p, <<Call("sgr_open", 0, ok, NULL)>>)
          /\ IF ok
             THEN /\ sgTab' = [sgTab EXCEPT ![p] = sgDisk]
                  /\ Goto(p, "loop")
                  /\ UNCHANGED <<code, diag>>
             ELSE /\ Say(p, <<Diag("cannot open gshadow", 0)>>)
                  /\ FailExit(p, 1)
                  /\ UNCHANGED sgTab
    /\ UNCHANGED <<status, argv, input, crypt_method, is_shadow_grp, flagVars,
                   lockVars, grTab, grDirty, sgDirty, diskVars, loopVars>>

(***************************************************************************)
(* main: the loop over the input lines                                     *)
(***************************************************************************)
\* lines 403-411: the line without its newline, NULL when none was read
Chomp(buf) ==
    LET cp == Strrchr(buf, NL)
    IN IF cp # 0 THEN <<SubSeq(buf, 1, cp - 1)>> ELSE NULL

\* the line split at its last colon instead of its first
SplitLast(ln) ==
    LET cp == Strrchr(ln, ":")
    IN IF cp # 0
       THEN <<[name |-> SubSeq(ln, 1, cp - 1),
               newpwd |-> SubSeq(ln, cp + 1, Len(ln))]>>
       ELSE NULL

\* lines 422-434: name and newpwd around the first colon, NULL without one
Split(ln) ==
    LET cp == Strchr(ln, ":")
    IN IF cp # 0
       THEN <<[name |-> SubSeq(ln, 1, cp - 1),
               newpwd |-> SubSeq(ln, cp + 1, Len(ln))]>>
       ELSE NULL

\* lines 435-437: whether newpwd goes through pw_encrypt
NeedsEncrypt(ef, cm) == ~ef /\ (cm = NULL \/ cm # <<"NONE">>)

\* lines 438-447: the method and the argument given to crypt_make_salt
SaltMethod(mf, cm) == IF mf THEN <<"MD5">> ELSE cm
SaltArg(mf, cm, sf, rounds) ==
    IF ~mf /\ cm # NULL /\ sf THEN <<rounds>> ELSE NULL

\* the shadow entry ignored: always the group entry
TargetPrimary(gr, sg) == IF gr = NULL THEN "none" ELSE "gr"

\* a missing shadow entry taken for a missing group
TargetShadowOnly(gr, sg) ==
    IF gr = NULL \/ sg = NULL THEN "none" ELSE "sgr"

\* lines 456-485: the handle the new password is merged into
Target(gr, sg) ==
    IF gr = NULL THEN "none" ELSE IF sg # NULL THEN "sgr" ELSE "gr"

\* the assignment of line 479 left out: the copy keeps the old password
MergeSgStale(sg, cp) == sg

\* lines 476-485: the new password merged into a copy of the located entry
MergeSg(sg, cp) == [sg EXCEPT !.sg_passwd = cp]
MergeGr(gr, cp) == [gr EXCEPT !.gr_passwd = cp]

\* the errors++ of line 461 left out
RejectedButUnknown(chomped, parsed, target, staged) ==
    \/ ~chomped
    \/ ~parsed
    \/ target # "none" /\ ~staged

\* the errors++ of lines 409, 431, 461, 498 and 508
Rejected(chomped, parsed, target, staged) ==
    \/ ~chomped
    \/ ~parsed
    \/ target = "none"
    \/ ~staged

ProcessLine(p) ==
    /\ pc[p] = "loop"
    /\ \E staged \in BOOLEAN :      \* result of gr_update / sgr_update
       LET buf == Fgets(stdin[p], BufSize)
           eof == buf = NULL
           n == line[p] + 1
           ln == Chomp(buf)
           fields == IF ln = NULL THEN NULL ELSE Split(ln[1])
           parsed == ~eof /\ fields # NULL
           name == fields[1].name
           newpwd == fields[1].newpwd
           encrypt == parsed /\ NeedsEncrypt(eflg[p], crypt_method[p])
           method == SaltMethod(md5flg[p], crypt_method[p])
           arg == SaltArg(md5flg[p], crypt_method[p], sflg[p], sha_rounds[p])
           cp == IF encrypt THEN pw_encrypt(newpwd, crypt_make_salt(method, arg))
                 ELSE newpwd
           gr == Locate(grTab[p], name)
           sg == IF is_shadow_grp[p] THEN Locate(sgTab[p], name) ELSE NULL
           target == IF parsed THEN Target(gr, sg) ELSE "none"
           newsg == MergeSg(sg[1], cp)
           newgr == MergeGr(gr[1], cp)
           rejected == ~eof /\ Rejected(ln # NULL, parsed, target, staged)
       IN /\ Goto(p, IF eof THEN "decide" ELSE "loop")
          /\ stdin' = [stdin EXCEPT ![p] = SubSeq(@, Len(buf) + 1, Len(@))]
          /\ line' = [line EXCEPT ![p] = IF eof THEN @ ELSE n]
          /\ errors' = [errors EXCEPT ![p] = IF rejected THEN @ + 1 ELSE @]
          /\ crypt_method' = [crypt_method EXCEPT
                                ![p] = IF encrypt THEN method ELSE @]
          /\ salts' = [salts EXCEPT
                         ![p] = IF encrypt THEN @ \cup {<<method, arg>>} ELSE @]
          /\ sgTab' = [sgTab EXCEPT
                         ![p] = IF target = "sgr" /\ staged
                                THEN Update(@, newsg.sg_name, newsg) ELSE @]
          /\ sgDirty' = [sgDirty EXCEPT ![p] = @ \/ (target = "sgr" /\ staged)]
          /\ grTab' = [grTab EXCEPT
                         ![p] = IF target = "gr" /\ staged
                                THEN Update(@, newgr.gr_name, newgr) ELSE @]
          /\ grDirty' = [grDirty EXCEPT ![p] = @ \/ (target = "gr" /\ staged)]
          /\ Log(p, <<Call("fgets", IF eof THEN 0 ELSE n, ~eof, NULL)>>
                    \o (IF parsed
                        THEN <<Call("gr_locate", n, gr # NULL, name)>>
                        ELSE <<>>)
                    \o (IF parsed /\ gr # NULL /\ is_shadow_grp[p]
                        THEN <<Call("sgr_locate", n, sg # NULL, name)>>
                        ELSE <<>>)
                    \o (IF target = "sgr"
                        THEN <<Call("sgr_update", n, staged, newsg.sg_name)>>
                        ELSE <<>>)
                    \o (IF target = "gr"
                        THEN <<Call("gr_update", n, staged, newgr.gr_name)>>
                        ELSE <<>>))
          /\ Say(p, IF eof THEN <<>>
                    ELSE IF ln = NULL THEN <<Diag("line too long", n)>>
                    ELSE IF fields = NULL
                         THEN <<Diag("missing new password", n)>>
                    ELSE IF target = "none"
                         THEN <<Diag("group does not exist", n)>>
                    ELSE IF ~staged
                         THEN <<Diag("failed to prepare the new entry", n)>>
                    ELSE <<>>)
    /\ UNCHANGED <<status, argv, input, is_shadow_grp, code, flagVars,
                   lockVars, diskVars>>

\* a wrong test of the error counter: one error is let through
AbortOnSecond(errs) == 1 < errs

\* lines 521-525: any detected error aborts the whole set of changes
Abort(errs) == 0 # errs

\* lines 328-346: close_files starts with the shadowed database if it exists
CloseFirst(shadow) == IF shadow THEN "sgr_close" ELSE "gr_close"

Decide(p) ==
    /\ pc[p] = "decide"
    /\ IF Abort(errors[p])
       THEN /\ Say(p, <<Diag("error detected, changes ignored", 0)>>)
            /\ FailExit(p, 1)
       ELSE /\ Goto(p, CloseFirst(is_shadow_grp[p]))
            /\ UNCHANGED <<code, diag>>
    /\ UNCHANGED <<status, argv, input, crypt_method, is_shadow_grp, flagVars,
                   lockVars, tabVars, diskVars, loopVars, calls>>

(***************************************************************************)
(* close_files                                                             *)
(***************************************************************************)
\* a failed sgr_close () taken for a warning: close_files goes on
SgrCloseContinue(p) ==
    /\ pc[p] = "sgr_close"
    /\ \E written \in BOOLEAN :
          LET ok == written \/ ~sgDirty[p]
          IN /\ Log(p, <<Call("sgr_close", 0, ok, NULL)>>)
             /\ sgDisk' = IF ok /\ sgDirty[p] THEN sgTab[p] ELSE sgDisk
             /\ Say(p, IF ok THEN <<>>
                       ELSE <<Diag("failure while writing gshadow", 0)>>)
    /\ Goto(p, "sgr_unlock")
    /\ UNCHANGED <<status, argv, input, crypt_method, is_shadow_grp, code,
                   flagVars, lockVars, tabVars, grDisk, sgPresent, loopVars>>

\* sgr_close (): writes the table to the file when it changed; only the
\* write can fail, and a failed write leaves the file as it was
SgrClose(p) ==
    /\ pc[p] = "sgr_close"
    /\ \E written \in BOOLEAN :
          LET ok == written \/ ~sgDirty[p]
          IN /\ Log(p, <<Call("sgr_close", 0, ok, NULL)>>)
             /\ IF ok
                THEN /\ sgDisk' = IF sgDirty[p] THEN sgTab[p] ELSE sgDisk
                     /\ Goto(p, "sgr_unlock")
                     /\ UNCHANGED <<code, diag>>
                ELSE /\ Say(p, <<Diag("failure while writing gshadow", 0)>>)
                     /\ FailExit(p, 1)
                     /\ UNCHANGED sgDisk
    /\ UNCHANGED <<status, argv, input, crypt_method, is_shadow_grp, flagVars,
                   lockVars, tabVars, grDisk, sgPresent, loopVars>>

\* line 342 left out: sgr_locked stays true after the unlock
SgrUnlockKeepFlag(p) ==
    /\ pc[p] = "sgr_unlock"
    /\ \E lost \in BOOLEAN :
          LET ok == sgLock = p /\ ~lost
          IN /\ Log(p, <<Call("sgr_unlock", 0, ok, NULL)>>)
             /\ sgLock' = IF sgLock = p THEN Free ELSE sgLock
             /\ Say(p, IF ok THEN <<>>
                       ELSE <<Diag("failed to unlock gshadow", 0)>>)
    /\ Goto(p, "gr_close")
    /\ UNCHANGED <<status, argv, input, crypt_method, is_shadow_grp, code,
                   flagVars, grLock, gr_locked, sgr_locked, tabVars, diskVars,
                   loopVars>>

\* sgr_unlock (): releases the lock this run holds; fails when it holds
\* none, be it that the lock file was removed under it (lost)
SgrUnlock(p) ==
    /\ pc[p] = "sgr_unlock"
    /\ \E lost \in BOOLEAN :
          LET ok == sgLock = p /\ ~lost
          IN /\ Log(p, <<Call("sgr_unlock", 0, ok, NULL)>>)
             /\ sgLock' = IF sgLock = p THEN Free ELSE sgLock
             /\ Say(p, IF ok THEN <<>>
                       ELSE <<Diag("failed to unlock gshadow", 0)>>)
    /\ sgr_locked' = [sgr_locked EXCEPT ![p] = FALSE]
    /\ Goto(p, "gr_close")
    /\ UNCHANGED <<status, argv, input, crypt_method, is_shadow_grp, code,
                   flagVars, grLock, gr_locked, tabVars, diskVars, loopVars>>

GrClose(p) ==
    /\ pc[p] = "gr_close"
    /\ \E written \in BOOLEAN :
          LET ok == written \/ ~grDirty[p]
          IN /\ Log(p, <<Call("gr_close", 0, ok, NULL)>>)
             /\ IF ok
                THEN /\ grDisk' = IF grDirty[p] THEN grTab[p] ELSE grDisk
                     /\ Goto(p, "gr_unlock")
                     /\ UNCHANGED <<code, diag>>
                ELSE /\ Say(p, <<Diag("failure while writing group", 0)>>)
                     /\ FailExit(p, 1)
                     /\ UNCHANGED grDisk
    /\ UNCHANGED <<status, argv, input, crypt_method, is_shadow_grp, flagVars,
                   lockVars, tabVars, sgDisk, sgPresent, loopVars>>

\* a failed gr_unlock () taken for fatal instead of "continue"
GrUnlockFatal(p) ==
    /\ pc[p] = "gr_unlock"
    /\ \E lost \in BOOLEAN :
          LET ok == grLock = p /\ ~lost
          IN /\ Log(p, <<Call("gr_unlock", 0, ok, NULL)>>)
             /\ grLock' = IF grLock = p THEN Free ELSE grLock
             /\ IF ok
                THEN Goto(p, "return") /\ UNCHANGED <<code, diag>>
                ELSE /\ Say(p, <<Diag("failed to unlock group", 0)>>)
                     /\ FailExit(p, 1)
    /\ gr_locked' = [gr_locked EXCEPT ![p] = FALSE]
    /\ UNCHANGED <<status, argv, input, crypt_method, is_shadow_grp,
                   flagVars, sgLock, sgr_locked, tabVars, diskVars, loopVars>>

\* gr_unlock (): as sgr_unlock ()
GrUnlock(p) ==
    /\ pc[p] = "gr_unlock"
    /\ \E lost \in BOOLEAN :
          LET ok == grLock = p /\ ~lost
          IN /\ Log(p, <<Call("gr_unlock", 0, ok, NULL)>>)
             /\ grLock' = IF grLock = p THEN Free ELSE grLock
             /\ Say(p, IF ok THEN <<>>
                       ELSE <<Diag("failed to unlock group", 0)>>)
    /\ gr_locked' = [gr_locked EXCEPT ![p] = FALSE]
    /\ Goto(p, "return")
    /\ UNCHANGED <<status, argv, input, crypt_method, is_shadow_grp, code,
                   flagVars, sgLock, sgr_locked, tabVars, diskVars, loopVars>>

\* main, lines 529-535: nscd_flush_cache, pam_end, return (0)
Return(p) ==
    /\ pc[p] = "return"
    /\ Log(p, <<Call("nscd_flush_cache", 0, TRUE, NULL)>>)
    /\ Exit(p, 0)
    /\ UNCHANGED <<argv, input, crypt_method, is_shadow_grp, code, flagVars,
                   lockVars, tabVars, diskVars, loopVars, diag>>

(***************************************************************************)
(* fail_exit                                                               *)
(***************************************************************************)
\* lines 89-95: if (gr_locked) gr_unlock ()
FailExitGr(p) ==
    /\ pc[p] = "fail_exit"
    /\ IF gr_locked[p]
       THEN \E lost \in BOOLEAN :
               LET ok == grLock = p /\ ~lost
               IN /\ Log(p, <<Call("gr_unlock", 0, ok, NULL)>>)
                  /\ grLock' = IF grLock = p THEN Free ELSE grLock
                  /\ Say(p, IF ok THEN <<>>
                            ELSE <<Diag("failed to unlock group", 0)>>)
       ELSE UNCHANGED <<calls, grLock, diag>>
    /\ Goto(p, "fail_exit_sgr")
    /\ UNCHANGED <<status, argv, input, crypt_method, is_shadow_grp, code,
                   flagVars, sgLock, gr_locked, sgr_locked, tabVars, diskVars,
                   loopVars>>

\* the shadow unlock of lines 98-104 left out: fail_exit only exits
FailExitSgrLeak(p) ==
    /\ pc[p] = "fail_exit_sgr"
    /\ Exit(p, code[p])
    /\ UNCHANGED <<argv, input, crypt_method, is_shadow_grp, code, flagVars,
                   lockVars, tabVars, diskVars, loopVars, calls, diag>>

\* lines 98-107: if (sgr_locked) sgr_unlock (); exit (code)
FailExitSgr(p) ==
    /\ pc[p] = "fail_exit_sgr"
    /\ IF sgr_locked[p]
       THEN \E lost \in BOOLEAN :
               LET ok == sgLock = p /\ ~lost
               IN /\ Log(p, <<Call("sgr_unlock", 0, ok, NULL)>>)
                  /\ sgLock' = IF sgLock = p THEN Free ELSE sgLock
                  /\ Say(p, IF ok THEN <<>>
                            ELSE <<Diag("failed to unlock gshadow", 0)>>)
       ELSE UNCHANGED <<calls, sgLock, diag>>
    /\ Exit(p, code[p])
    /\ UNCHANGED <<argv, input, crypt_method, is_shadow_grp, code, flagVars,
                   grLock, gr_locked, sgr_locked, tabVars, diskVars, loopVars>>

(***************************************************************************)
(* The specifications.                                                     *)
(***************************************************************************)
Step(p) ==
    \/ ProcessFlags(p)
    \/ CheckPerms(p)
    \/ SgrFilePresent(p)
    \/ GrLock(p)
    \/ GrOpen(p)
    \/ SgrLock(p)
    \/ SgrOpen(p)
    \/ ProcessLine(p)
    \/ Decide(p)
    \/ SgrClose(p)
    \/ SgrUnlock(p)
    \/ GrClose(p)
    \/ GrUnlock(p)
    \/ Return(p)
    \/ FailExitGr(p)
    \/ FailExitSgr(p)

Next == \E p \in Proc : Step(p)

Spec == Init /\ [][Next]_vars

\* two runs started together, on short inputs
ArgvsTwo == { NoArgv, [NoArgv EXCEPT !.e = TRUE] }
StreamsTwo == { <<>>, <<"g", ":", "p", NL>>, <<"h", ":", "q", NL>>,
                <<"g", "p", NL>> }
InitTwo == InitRun(Proc, ArgvsTwo, StreamsTwo)
SpecTwo == InitTwo /\ [][Next]_vars

(***************************************************************************)
(* What a run can be seen to have done.                                    *)
(***************************************************************************)
Exited(p) == pc[p] = "exited"
Called(p, op) == \E i \in 1..Len(calls[p]) : calls[p][i].op = op
Succeeded(p, op) ==
    \E i \in 1..Len(calls[p]) : calls[p][i].op = op /\ calls[p][i].ok
Failed(p, op) ==
    \E i \in 1..Len(calls[p]) : calls[p][i].op = op /\ ~calls[p][i].ok
\* positions of the calls of op
At(p, op) == { i \in 1..Len(calls[p]) : calls[p][i].op = op }
\* every call of a comes before every call of b
Before(p, a, b) == \A i \in At(p, a), j \in At(p, b) : i < j

LineRejections == { "line too long", "missing new password",
                    "group does not exist", "failed to prepare the new entry" }
\* the input lines a diagnostic rejects
RejectedLines(p) ==
    { diag[p][i].line : i \in { j \in 1..Len(diag[p]) :
                                  diag[p][j].msg \in LineRejections } }

SgDiskInit == IF sgPresent THEN SgDisk0 ELSE NoTable

(***************************************************************************)
(* C1. Atomicity on error: once a line of the input has been rejected, at  *)
(* every later point of the run, its end included, both files hold what    *)
(* they held before the run and neither gr_close nor sgr_close was called. *)
(***************************************************************************)
C1_AtomicOnError ==
    \A p \in Proc :
        RejectedLines(p) # {} =>
            /\ grDisk = GrDisk0
            /\ sgDisk = SgDiskInit
            /\ ~Called(p, "gr_close")
            /\ ~Called(p, "sgr_close")

\* a run that ended in abort after its first line was rejected and its
\* second line was staged
C1_Witness ==
    \E p \in Proc :
        /\ Exited(p)
        /\ status[p] = <<1>>
        /\ RejectedLines(p) = {1}
        /\ line[p] = 2
        /\ grDirty[p] \/ sgDirty[p]
        /\ grTab[p] # grDisk \/ sgTab[p] # sgDisk

(***************************************************************************)
(* The input as the caller wrote it: its lines, and the two fields of a    *)
(* line around its first colon.                                            *)
(***************************************************************************)
RECURSIVE LinesOf(_)
LinesOf(s) ==
    IF s = <<>> THEN <<>>
    ELSE LET k == Strchr(s, NL)
         IN IF k = 0 THEN <<s>>
            ELSE <<SubSeq(s, 1, k - 1)>> \o LinesOf(SubSeq(s, k + 1, Len(s)))
NameOf(l) == SubSeq(l, 1, Strchr(l, ":") - 1)
PasswordOf(l) == SubSeq(l, Strchr(l, ":") + 1, Len(l))
\* the last line of ls naming n
LastNaming(ls, n) ==
    CHOOSE i \in 1..Len(ls) :
        /\ NameOf(ls[i]) = n
        /\ \A j \in 1..Len(ls) : NameOf(ls[j]) = n => j <= i
\* cred is pwd itself when the run encoded nothing, else pwd encoded under
\* one of the salts the run made
DerivedFrom(p, cred, pwd) ==
    IF salts[p] = {} THEN cred = pwd
    ELSE \E m \in salts[p] : cred = pw_encrypt(pwd, crypt_make_salt(m[1], m[2]))

(***************************************************************************)
(* C2. All-valid commit, last write wins: when a run has ended with no     *)
(* line rejected and every commit done, each group named in the input      *)
(* holds, in its gshadow record if it has one and in its group record      *)
(* otherwise, the credential derived from the LAST line naming it; every   *)
(* other field and every other record of both files is as before the run.  *)
(***************************************************************************)
C2_LastWriteWins ==
    \A p \in Proc :
        ( /\ Exited(p)
          /\ RejectedLines(p) = {}
          /\ Succeeded(p, "gr_close")
          /\ sgPresent => Succeeded(p, "sgr_close") )
        => LET ls == LinesOf(input[p])
               named == { NameOf(ls[i]) : i \in 1..Len(ls) }
               pwd(n) == PasswordOf(ls[LastNaming(ls, n)])
           IN /\ DOMAIN grDisk = DOMAIN GrDisk0
              /\ DOMAIN sgDisk = DOMAIN SgDiskInit
              /\ \A n \in DOMAIN sgDisk :
                    IF n \in named
                    THEN /\ DerivedFrom(p, sgDisk[n].sg_passwd, pwd(n))
                         /\ sgDisk[n] = [SgDiskInit[n] EXCEPT
                                           !.sg_passwd = sgDisk[n].sg_passwd]
                    ELSE sgDisk[n] = SgDiskInit[n]
              /\ \A n \in DOMAIN grDisk :
                    IF n \in named /\ n \notin DOMAIN sgDisk
                    THEN /\ DerivedFrom(p, grDisk[n].gr_passwd, pwd(n))
                         /\ grDisk[n] = [GrDisk0[n] EXCEPT
                                           !.gr_passwd = grDisk[n].gr_passwd]
                    ELSE grDisk[n] = GrDisk0[n]

\* a committed run whose two lines gave group g first p, then q, encoded
C2_Witness ==
    \E p \in Proc :
        /\ Exited(p)
        /\ status[p] = <<0>>
        /\ sgPresent
        /\ input[p] = <<"g", ":", "p", NL, "g", ":", "q", NL>>
        /\ salts[p] # {}
        /\ sgDisk[<<"g">>].sg_passwd # SgDisk0[<<"g">>].sg_passwd

(***************************************************************************)
(* C3. Shadow precedence: a line whose group has a record in the group     *)
(* table and in the table of the active gshadow handle is staged with      *)
(* sgr_update alone: gr_update is never called for such a name, and the    *)
(* group record of that name keeps its password, in memory and on disk,    *)
(* whatever lines came before.                                             *)
(***************************************************************************)
C3_ShadowPrecedence ==
    \A p \in Proc :
        /\ \A i \in At(p, "gr_update") :
              ~(is_shadow_grp[p] /\ calls[p][i].arg \in DOMAIN sgTab[p])
        /\ \A i \in At(p, "sgr_locate") :
              calls[p][i].ok =>
                 /\ i < Len(calls[p])
                 /\ calls[p][i + 1].op = "sgr_update"
                 /\ calls[p][i + 1].line = calls[p][i].line
                 /\ calls[p][i + 1].arg = calls[p][i].arg
        /\ \A i \in At(p, "sgr_update") :
              LET n == calls[p][i].arg
              IN /\ grTab[p][n].gr_passwd = GrDisk0[n].gr_passwd
                 /\ grDisk[n].gr_passwd = GrDisk0[n].gr_passwd
                 /\ calls[p][i].ok
                       => sgTab[p][n].sg_passwd # SgDisk0[n].sg_passwd

\* a committed run that staged group g twice, both times in gshadow
C3_Witness ==
    \E p \in Proc :
        /\ Exited(p)
        /\ status[p] = <<0>>
        /\ Cardinality(At(p, "sgr_update")) = 2
        /\ \A i \in At(p, "sgr_update") : calls[p][i].arg = <<"g">>
        /\ sgDisk[<<"g">>].sg_passwd # SgDisk0[<<"g">>].sg_passwd
        /\ grDisk = GrDisk0

(***************************************************************************)
(* C4. Shadow fallback: a line whose group is in the group table but has   *)
(* no record in an active gshadow handle, or is read while no gshadow      *)
(* handle is active, is staged with gr_update and not with sgr_update; a   *)
(* line so staged is not counted as an error, the error counter counts the *)
(* rejected lines only, and no gshadow record is created.                  *)
(***************************************************************************)
C4_ShadowFallback ==
    \A p \in Proc :
        /\ \A i \in At(p, "gr_locate") :
              LET n == calls[p][i].arg
                  k == calls[p][i].line
              IN (calls[p][i].ok
                  /\ (~is_shadow_grp[p] \/ n \notin DOMAIN sgTab[p]))
                 => /\ \E j \in At(p, "gr_update") :
                          calls[p][j].line = k /\ calls[p][j].arg = n
                    /\ \A j \in At(p, "sgr_update") : calls[p][j].line # k
        /\ \A j \in At(p, "gr_update") :
              calls[p][j].ok =>
                 /\ calls[p][j].line \notin RejectedLines(p)
                 /\ grTab[p][calls[p][j].arg].gr_passwd
                       # GrDisk0[calls[p][j].arg].gr_passwd
        /\ errors[p] = Cardinality(RejectedLines(p))
        /\ DOMAIN sgTab[p] \subseteq DOMAIN SgDiskInit
        /\ DOMAIN sgDisk = DOMAIN SgDiskInit

\* a committed run, gshadow active, whose line for group h (no gshadow
\* record) went to the group file without an error
C4_Witness ==
    \E p \in Proc :
        /\ Exited(p)
        /\ status[p] = <<0>>
        /\ is_shadow_grp[p]
        /\ errors[p] = 0
        /\ \E j \in At(p, "gr_update") : calls[p][j].arg = <<"h">>
        /\ grDisk[<<"h">>].gr_passwd # GrDisk0[<<"h">>].gr_passwd
        /\ <<"h">> \notin DOMAIN sgDisk

(***************************************************************************)
(* C5. Unknown group: the step that looks up a name absent from the group  *)
(* table adds exactly one to the error counter and leaves both tables,     *)
(* their marks and both files as they were; at all times the tables and    *)
(* the files hold exactly the names they held before the run, and no       *)
(* update is ever called for a name outside the group file.                *)
(***************************************************************************)
UnknownGroupStep(p) ==
    /\ Len(calls'[p]) > Len(calls[p])
    /\ calls'[p][Len(calls'[p])].op = "gr_locate"
    /\ ~calls'[p][Len(calls'[p])].ok

C5_UnknownGroup ==
    /\ [](/\ DOMAIN grDisk = DOMAIN GrDisk0
          /\ DOMAIN sgDisk = DOMAIN SgDiskInit
          /\ \A p \in Proc :
                /\ DOMAIN grTab[p] \subseteq DOMAIN GrDisk0
                /\ DOMAIN sgTab[p] \subseteq DOMAIN SgDiskInit
                /\ \A i \in At(p, "gr_update") \cup At(p, "sgr_update") :
                      calls[p][i].arg \in DOMAIN GrDisk0)
    /\ [][\A p \in Proc :
            UnknownGroupStep(p) =>
               /\ errors'[p] = errors[p] + 1
               /\ Len(calls'[p]) = Len(calls[p]) + 2
               /\ UNCHANGED <<tabVars, diskVars>>]_vars

\* an aborted run, gshadow active, that looked up x: in gshadow, not in group
C5_Witness ==
    \E p \in Proc :
        /\ Exited(p)
        /\ is_shadow_grp[p]
        /\ <<"x">> \in DOMAIN sgTab[p]
        /\ \E i \in At(p, "gr_locate") :
              calls[p][i].arg = <<"x">> /\ ~calls[p][i].ok
        /\ errors[p] = 1
        /\ line[p] = 2
        /\ status[p] = <<1>>

(***************************************************************************)
(* C6. Lifecycle ordering: the calls of a run come in the order            *)
(* check_perms, gr_lock, gr_open, sgr_lock, sgr_open, the loop's calls,    *)
(* sgr_close, gr_close, the cache flush, each step outside the loop at     *)
(* most once.  Nothing is called after a denied check_perms; a handle is   *)
(* opened only by the holder of its lock; a line is read only after every  *)
(* lock and open the run needs has succeeded; gr_close is called only      *)
(* after sgr_close has succeeded and sgr_unlock has been called, when the  *)
(* gshadow handle is active, and gr_unlock follows a successful gr_close.  *)
(***************************************************************************)
LoopOps == { "fgets", "gr_locate", "sgr_locate", "gr_update", "sgr_update" }
Unlocks == { "gr_unlock", "sgr_unlock" }
Rank(op) ==
    CASE op = "check_perms" -> 1
      [] op = "gr_lock" -> 2
      [] op = "gr_open" -> 3
      [] op = "sgr_lock" -> 4
      [] op = "sgr_open" -> 5
      [] op \in LoopOps -> 6
      [] op = "sgr_close" -> 7
      [] op = "gr_close" -> 8
      [] op = "nscd_flush_cache" -> 9
      [] OTHER -> 0

C6_LifecycleOrder ==
    \A p \in Proc :
        LET cs == calls[p]
            steps == { i \in 1..Len(cs) : cs[i].op \notin Unlocks }
        IN /\ \A i, j \in steps :
                 i < j => \/ Rank(cs[i].op) < Rank(cs[j].op)
                          \/ cs[i].op \in LoopOps /\ cs[j].op \in LoopOps
           /\ cs # <<>> => cs[1].op = "check_perms"
           /\ Failed(p, "check_perms")
                 => Len(cs) = 1 /\ grLock # p /\ sgLock # p
           /\ pc[p] = "gr_open" => grLock = p
           /\ pc[p] = "sgr_open" => sgLock = p /\ grLock = p
           /\ \A i \in At(p, "gr_open") :
                 cs[i - 1].op = "gr_lock" /\ cs[i - 1].ok
           /\ \A i \in At(p, "sgr_open") :
                 cs[i - 1].op = "sgr_lock" /\ cs[i - 1].ok
           /\ Called(p, "fgets") =>
                 /\ Succeeded(p, "gr_lock") /\ Succeeded(p, "gr_open")
                 /\ sgPresent =>
                       Succeeded(p, "sgr_lock") /\ Succeeded(p, "sgr_open")
                 /\ \A i \in At(p, "fgets"), j \in 1..Len(cs) :
                       cs[j].op \in Unlocks => i < j
           /\ \A i \in At(p, "gr_close") :
                 sgPresent =>
                    /\ cs[i - 1].op = "sgr_unlock"
                    /\ cs[i - 2].op = "sgr_close" /\ cs[i - 2].ok
                    /\ sgLock # p
           /\ \A i \in At(p, "gr_unlock") :
                 Succeeded(p, "gr_close")
                    => cs[i - 1].op = "gr_close" /\ cs[i - 1].ok

\* a run with gshadow that read two lines and went through every step
C6_Witness ==
    \E p \in Proc :
        /\ Exited(p)
        /\ status[p] = <<0>>
        /\ Cardinality(At(p, "fgets")) = 3
        /\ \A op \in { "check_perms", "gr_lock", "gr_open", "sgr_lock",
                       "sgr_open", "sgr_update", "gr_update", "sgr_close",
                       "sgr_unlock", "gr_close", "gr_unlock" } :
              Succeeded(p, op)

(***************************************************************************)
(* C7. Acquisition-phase failure: a run whose gr_lock, gr_open, sgr_lock   *)
(* or sgr_open failed reads no line, stages and writes nothing, and ends   *)
(* with status 1 holding no lock: a group lock it had taken has been       *)
(* released, and when gr_lock itself failed nothing is unlocked at all.    *)
(***************************************************************************)
AcquisitionFailed(p) ==
    \/ Failed(p, "gr_lock")
    \/ Failed(p, "gr_open")
    \/ Failed(p, "sgr_lock")
    \/ Failed(p, "sgr_open")

C7_AcquisitionFailure ==
    \A p \in Proc :
        AcquisitionFailed(p) =>
            /\ \A op \in LoopOps \cup { "gr_close", "sgr_close" } :
                  ~Called(p, op)
            /\ stdin[p] = input[p]
            /\ ~grDirty[p] /\ ~sgDirty[p]
            /\ grDisk = GrDisk0 /\ sgDisk = SgDiskInit
            /\ Failed(p, "gr_lock") =>
                  ~Called(p, "gr_unlock") /\ ~Called(p, "sgr_unlock")
            /\ Exited(p) =>
                  /\ status[p] = <<1>>
                  /\ grLock # p /\ sgLock # p
                  /\ Succeeded(p, "gr_lock") => Called(p, "gr_unlock")
                  /\ Succeeded(p, "sgr_lock") => Called(p, "sgr_unlock")

\* a run that took both locks, could not open gshadow, and has exited
C7_Witness ==
    \E p \in Proc :
        /\ Exited(p)
        /\ Failed(p, "sgr_open")
        /\ Succeeded(p, "gr_lock") /\ Succeeded(p, "sgr_lock")
        /\ input[p] # <<>>
        /\ grLock = Free /\ sgLock = Free

(***************************************************************************)
(* C8. Lock exclusivity, two runs interleaved: the two runs are never both *)
(* between a successful gr_lock and the gr_unlock after it.  A lock call   *)
(* made while the other run holds that lock fails; it is made at once (the *)
(* step is enabled whoever holds the lock) and leads nowhere but to        *)
(* fail_exit; and a run whose lock call failed reads no line, stages       *)
(* nothing and ends with status 1.                                         *)
(***************************************************************************)
HoldsPrimary(p) ==
    \E i \in At(p, "gr_lock") :
        calls[p][i].ok /\ \A j \in At(p, "gr_unlock") : j < i

C8_LockExclusivity ==
    /\ \A p, q \in Proc : p # q => ~(HoldsPrimary(p) /\ HoldsPrimary(q))
    /\ \A p \in Proc :
          /\ \A i \in At(p, "gr_lock") \cup At(p, "sgr_lock") :
                calls[p][i].arg # <<Free>> => ~calls[p][i].ok
          /\ (pc[p] = "gr_lock" /\ grLock # Free) =>
                /\ ENABLED GrLock(p)
                /\ ~ENABLED (GrLock(p) /\ pc'[p] # "fail_exit")
          /\ (pc[p] = "sgr_lock" /\ sgLock # Free) =>
                /\ ENABLED SgrLock(p)
                /\ ~ENABLED (SgrLock(p) /\ pc'[p] # "fail_exit")
          /\ (Failed(p, "gr_lock") \/ Failed(p, "sgr_lock")) =>
                /\ \A op \in LoopOps : ~Called(p, op)
                /\ stdin[p] = input[p]
                /\ ~grDirty[p] /\ ~sgDirty[p]
                /\ Exited(p) => status[p] = <<1>>

\* run p was refused the group lock that run q held, and has exited
C8_Witness ==
    \E p, q \in Proc :
        /\ p # q
        /\ Exited(p)
        /\ status[p] = <<1>>
        /\ \E i \in At(p, "gr_lock") : calls[p][i].arg = <<q>>
        /\ input[p] # <<>>
        /\ HoldsPrimary(q)

\* run p was refused the gshadow lock that run q held
C8_ShadowRefused ==
    \E p, q \in Proc :
        /\ p # q
        /\ \E i \in At(p, "sgr_lock") : calls[p][i].arg = <<q>>

(***************************************************************************)
(* C9. Abort unwind order, as claimed: a run that ended its input with a   *)
(* nonzero error counter and an active gshadow handle unlocks gshadow      *)
(* first and group second, and exits with a nonzero status.                *)
(***************************************************************************)
C9_ShadowUnlockedFirst ==
    \A p \in Proc :
        (Exited(p) /\ errors[p] # 0 /\ is_shadow_grp[p]) =>
            /\ status[p] # <<0>>
            /\ Called(p, "sgr_unlock") /\ Called(p, "gr_unlock")
            /\ Before(p, "sgr_unlock", "gr_unlock")

(***************************************************************************)
(* C10. Commit-failure asymmetry: closes are called only with no line      *)
(* rejected.  After a failed sgr_close, gr_close is never called, both     *)
(* files are as before the run and the run exits 1.  After a successful    *)
(* sgr_close and a failed gr_close the gshadow file holds the run's        *)
(* gshadow table, the group file is as before the run and the run exits 1. *)
(* A run that staged changes in both handles ends with exactly one of the  *)
(* two files changed only in that second way.                              *)
(***************************************************************************)
MixedState(p) ==
    /\ Exited(p)
    /\ sgDirty[p] /\ grDirty[p]
    /\ (sgDisk # SgDiskInit) # (grDisk # GrDisk0)

C10_CommitFailure ==
    \A p \in Proc :
        /\ (Called(p, "sgr_close") \/ Called(p, "gr_close")) =>
              errors[p] = 0 /\ RejectedLines(p) = {}
        /\ Failed(p, "sgr_close") =>
              /\ ~Called(p, "gr_close")
              /\ sgDisk = SgDiskInit /\ grDisk = GrDisk0
              /\ Exited(p) => status[p] = <<1>>
        /\ (Succeeded(p, "sgr_close") /\ Failed(p, "gr_close")) =>
              /\ sgDisk = sgTab[p]
              /\ grDisk = GrDisk0
              /\ Exited(p) => status[p] = <<1>>
        /\ MixedState(p) =>
              /\ Succeeded(p, "sgr_close") /\ Failed(p, "gr_close")
              /\ sgDisk # SgDiskInit /\ grDisk = GrDisk0
              /\ status[p] = <<1>>

\* a run that wrote gshadow, could not write group, and has exited
C10_Witness ==
    \E p \in Proc :
        /\ MixedState(p)
        /\ errors[p] = 0
        /\ sgDisk[<<"g">>].sg_passwd # SgDisk0[<<"g">>].sg_passwd
        /\ grTab[p][<<"h">>].gr_passwd # grDisk[<<"h">>].gr_passwd
        /\ grLock = Free /\ sgLock = Free

(***************************************************************************)
(* C11. Lock release on every exit path: a run that has exited after       *)
(* open_files started has called the unlock of every lock it acquired,     *)
(* and holds none; a run whose sgr_close failed has called both unlocks.   *)
(***************************************************************************)
C11_LockRelease ==
    \A p \in Proc :
        (Exited(p) /\ Called(p, "gr_lock")) =>
            /\ Succeeded(p, "gr_lock") => Called(p, "gr_unlock")
            /\ Succeeded(p, "sgr_lock") => Called(p, "sgr_unlock")
            /\ grLock # p /\ sgLock # p
            /\ Failed(p, "sgr_close") =>
                  Called(p, "sgr_unlock") /\ Called(p, "gr_unlock")

\* a run that held both locks, could not write gshadow, and has exited
C11_Witness ==
    \E p \in Proc :
        /\ Exited(p)
        /\ Failed(p, "sgr_close")
        /\ Succeeded(p, "gr_lock") /\ Succeeded(p, "sgr_lock")
        /\ Succeeded(p, "gr_unlock") /\ Succeeded(p, "sgr_unlock")
        /\ sgDirty[p]
        /\ status[p] = <<1>>

(***************************************************************************)
(* C12. Exit status: a run exits with status 0 exactly when it was         *)
(* authorized, every lock and open it needed succeeded, no line was        *)
(* rejected and every close succeeded.  A failed unlock after the          *)
(* successful closes leaves the status 0, and a run on an empty input that *)
(* got its locks and opens exits 0.                                        *)
(***************************************************************************)
Acquired(p) ==
    /\ Succeeded(p, "check_perms")
    /\ Succeeded(p, "gr_lock") /\ Succeeded(p, "gr_open")
    /\ is_shadow_grp[p] =>
          Succeeded(p, "sgr_lock") /\ Succeeded(p, "sgr_open")

FullSuccess(p) ==
    /\ Acquired(p)
    /\ errors[p] = 0 /\ RejectedLines(p) = {}
    /\ is_shadow_grp[p] => Succeeded(p, "sgr_close")
    /\ Succeeded(p, "gr_close")

C12_ExitStatus ==
    \A p \in Proc :
        Exited(p) =>
            /\ status[p] = <<0>> <=> FullSuccess(p)
            /\ Succeeded(p, "gr_close") => status[p] = <<0>>
            /\ (Acquired(p) /\ input[p] = <<>>) => status[p] = <<0>>

\* a run that wrote both files, failed to unlock both, and exited 0
C12_Witness ==
    \E p \in Proc :
        /\ Exited(p)
        /\ status[p] = <<0>>
        /\ Failed(p, "sgr_unlock") /\ Failed(p, "gr_unlock")
        /\ grDisk # GrDisk0 /\ sgDisk # SgDiskInit

(***************************************************************************)
(* C13. Distinct exit codes, as claimed: two runs that ended in different  *)
(* classes (usage error, authorization denied, operational failure,        *)
(* success) ended with different exit statuses.                            *)
(***************************************************************************)
ExitClass(p) ==
    IF ~Called(p, "check_perms") THEN "usage"
    ELSE IF Failed(p, "check_perms") THEN "denied"
    ELSE IF FullSuccess(p) THEN "success"
    ELSE "operational"

C13_DistinctExitCodes ==
    \A p, q \in Proc :
        (Exited(p) /\ Exited(q) /\ ExitClass(p) # ExitClass(q)) =>
            status[p] # status[q]

(***************************************************************************)
(* C14. Line-number fidelity, as claimed: when a run has read its input to *)
(* the end, every line k of the input that has no colon has exactly one    *)
(* rejection diagnostic, which cites k, and has raised the error counter;  *)
(* the run has read as many lines as the input has; and it ends in abort,  *)
(* no close called and exit status 1.                                      *)
(***************************************************************************)
LoopDone(p) == Failed(p, "fgets")
\* the rejection diagnostics citing line k
Citing(p, k) ==
    { i \in 1..Len(diag[p]) :
        diag[p][i].msg \in LineRejections /\ diag[p][i].line = k }

C14_LineNumberFidelity ==
    \A p \in Proc :
        LoopDone(p) =>
            LET ls == LinesOf(input[p])
            IN \A k \in 1..Len(ls) :
                  Strchr(ls[k], ":") = 0 =>
                      /\ Cardinality(Citing(p, k)) = 1
                      /\ errors[p] >= 1
                      /\ line[p] = Len(ls)
                      /\ ~Called(p, "gr_close") /\ ~Called(p, "sgr_close")
                      /\ Exited(p) => status[p] = <<1>>

(***************************************************************************)
(* C15. Over-long records rejected whole, as claimed: a record of the      *)
(* input longer than the line buffer is rejected once, under its own line  *)
(* number, and nothing of it is looked up or staged: the run makes no more *)
(* fgets calls than the input has lines, and every name it looks up or     *)
(* stages is the name field of a whole line of the input.                  *)
(***************************************************************************)
\* the records of the input that do not fit the buffer with their newline
OverLong(ls) == { k \in 1..Len(ls) : Len(ls[k]) > BufSize - 2 }
\* the lines of the input that have a colon
WithColon(ls) == { k \in 1..Len(ls) : Strchr(ls[k], ":") # 0 }

C15_OverLongRejectedWhole ==
    \A p \in Proc :
        LET ls == LinesOf(input[p])
        IN OverLong(ls) # {} =>
              /\ Cardinality(At(p, "fgets")) <= Len(ls) + 1
              /\ LoopDone(p) => OverLong(ls) \subseteq RejectedLines(p)
              /\ \A i \in 1..Len(calls[p]) :
                    calls[p][i].op \in LoopOps \ { "fgets" } =>
                        \E k \in WithColon(ls) \ OverLong(ls) :
                            calls[p][i].arg = NameOf(ls[k])

(***************************************************************************)
(* C16. Pass-through and field split: a run started with -e or with        *)
(* -c NONE never makes a salt nor encodes anything.  When such a run reads *)
(* a line, the name it looks up is the text before the first colon of the  *)
(* line; when it stages the line, the entry staged is the one of that name *)
(* and its password is the text after that colon to the end of the line,   *)
(* later colons included.                                                  *)
(***************************************************************************)
PassThrough(p) == argv[p].e \/ argv[p].c = <<"NONE">>
\* the line at the head of the unread input
HeadLine(p) == LinesOf(stdin[p])[1]
\* the calls a step has added
NewCalls(p) == SubSeq(calls'[p], Len(calls[p]) + 1, Len(calls'[p]))
StagedBy(p, op) ==
    \E i \in 1..Len(NewCalls(p)) : NewCalls(p)[i].op = op /\ NewCalls(p)[i].ok

PassThroughStep(p) ==
    (PassThrough(p) /\ ProcessLine(p)) =>
        /\ \A i \in 1..Len(NewCalls(p)) :
              NewCalls(p)[i].op # "fgets" =>
                  NewCalls(p)[i].arg = NameOf(HeadLine(p))
        /\ StagedBy(p, "sgr_update") =>
              /\ NameOf(HeadLine(p)) \in DOMAIN sgTab[p]
              /\ sgTab'[p] = [sgTab[p] EXCEPT ![NameOf(HeadLine(p))].sg_passwd =
                                                   PasswordOf(HeadLine(p))]
              /\ grTab'[p] = grTab[p]
        /\ StagedBy(p, "gr_update") =>
              /\ NameOf(HeadLine(p)) \in DOMAIN grTab[p]
              /\ grTab'[p] = [grTab[p] EXCEPT ![NameOf(HeadLine(p))].gr_passwd =
                                                   PasswordOf(HeadLine(p))]
              /\ sgTab'[p] = sgTab[p]

C16_PassThrough ==
    /\ [](\A p \in Proc : PassThrough(p) => salts[p] = {})
    /\ [][\A p \in Proc : PassThroughStep(p)]_vars

\* a run with -c NONE has staged the password p:q, colon included, for h
C16_Witness ==
    \E p \in Proc :
        /\ argv[p].c = <<"NONE">>
        /\ Succeeded(p, "gr_update")
        /\ grTab[p][<<"h">>].gr_passwd = <<"p", ":", "q">>
        /\ salts[p] = {}

(***************************************************************************)
(* C17. LineTooLong, as claimed: a step of the loop that reads a line      *)
(* reports "line too long" exactly when the line at the head of the unread *)
(* input, ended by a newline or by the end of the stream, is longer than   *)
(* the line buffer can take with its newline.                              *)
(***************************************************************************)
\* the diagnostics a step has added
NewDiag(p) == SubSeq(diag'[p], Len(diag[p]) + 1, Len(diag'[p]))
ReportsTooLong(p) ==
    \E i \in 1..Len(NewDiag(p)) : NewDiag(p)[i].msg = "line too long"

C17_LineTooLong ==
    [][\A p \in Proc :
          (ProcessLine(p) /\ stdin[p] # <<>>) =>
              (ReportsTooLong(p) <=> Len(HeadLine(p)) > BufSize - 2)]_vars

(***************************************************************************)
(* C18. Inapplicable cost parameter, as claimed: whatever the flags, every *)
(* call of crypt_make_salt that was given the rounds argument was made for *)
(* the method SHA256 or SHA512.                                            *)
(***************************************************************************)
TunableCost == { <<"SHA256">>, <<"SHA512">> }

C18_CostParameter ==
    \A p \in Proc :
        \A s \in salts[p] : s[2] # NULL => s[1] \in TunableCost

(***************************************************************************)
(* C19. Lock nesting, as claimed: in every state, a run that holds the     *)
(* gshadow lock holds the group lock too.                                  *)
(***************************************************************************)
C19_LockNesting ==
    \A p \in Proc : sgLock = p => grLock = p

(***************************************************************************)
(* C20. Unlock at most once and only when acquired.  Common part: each of  *)
(* gr_unlock and sgr_unlock is called at most once in a run, and only      *)
(* after the lock call of the same file succeeded.                         *)
(***************************************************************************)
\* run p is between a successful call of lock and the first call of unlock
Between(p, lock, unlock) == Succeeded(p, lock) /\ ~Called(p, unlock)

UnlockOnce(p) ==
    /\ Cardinality(At(p, "gr_unlock")) <= 1
    /\ Cardinality(At(p, "sgr_unlock")) <= 1
    /\ \A j \in At(p, "gr_unlock") :
          \E i \in At(p, "gr_lock") : i < j /\ calls[p][i].ok
    /\ \A j \in At(p, "sgr_unlock") :
          \E i \in At(p, "sgr_lock") : i < j /\ calls[p][i].ok

\* as claimed: a flag is true only between the lock and the unlock
C20_FlagsOnlyBetween ==
    \A p \in Proc :
        /\ UnlockOnce(p)
        /\ gr_locked[p] => Between(p, "gr_lock", "gr_unlock")
        /\ sgr_locked[p] => Between(p, "sgr_lock", "sgr_unlock")

\* C20 amended: a flag is true exactly between the lock and the unlock
\* until fail_exit has unlocked; fail_exit leaves the flags as they are, so
\* a flag that is true after its unlock is seen only inside fail_exit,
\* after the unlock, and in the exited run.
C20_UnlockOnce ==
    \A p \in Proc :
        /\ UnlockOnce(p)
        /\ gr_locked[p] => Succeeded(p, "gr_lock")
        /\ sgr_locked[p] => Succeeded(p, "sgr_lock")
        /\ pc[p] \notin { "fail_exit_sgr", "exited" } =>
              /\ gr_locked[p] <=> Between(p, "gr_lock", "gr_unlock")
              /\ sgr_locked[p] <=> Between(p, "sgr_lock", "sgr_unlock")
        /\ pc[p] = "fail_exit_sgr" =>
              sgr_locked[p] <=> Between(p, "sgr_lock", "sgr_unlock")

\* a run that unlocked gshadow in close_files, could not write group, and
\* went through fail_exit: one call of each unlock, gr_locked still true
C20_Witness ==
    \E p \in Proc :
        /\ Exited(p)
        /\ Succeeded(p, "sgr_close") /\ Failed(p, "gr_close")
        /\ Cardinality(At(p, "sgr_unlock")) = 1
        /\ Cardinality(At(p, "gr_unlock")) = 1
        /\ gr_locked[p] /\ ~sgr_locked[p]

====
